---- MODULE Spec2Model ----
(***************************************************************************)
(* Model of crates/rust-zod-core/src/lib.rs: the schema data model, the    *)
(* fluent builders and the recursive validation walk validate /            *)
(* validate_recursive with its shared path stack and error list.           *)
(*                                                                         *)
(* Option<T> is modelled as a set with at most one element: None == {},    *)
(* Some(x) == {x}.  A Rust String is the sequence of its code points;      *)
(* str::len() is the UTF-8 byte length of that sequence.  A JSON number is *)
(* an integer small enough that Number::as_f64 represents it exactly.      *)
(* A JSON object is the sequence of its (key, value) entries in the        *)
(* iteration order of serde_json::Map, with pairwise distinct keys.        *)
(***************************************************************************)
EXTENDS Integers, Sequences, FiniteSets, TLC

VARIABLES schema, value, path, errors, stack, phase, result, log

vars == <<schema, value, path, errors, stack, phase, result, log>>

(***************************************************************************)
(* Bounds of the explored inputs.                                          *)
(***************************************************************************)
MaxBound == 2
MaxItems == 2
MaxRequired == 2
MaxCalls == 3

Keys == {"a", "b"}

None == {}
Some(x) == {x}
Unwrap(o) == CHOOSE x \in o : TRUE

(***************************************************************************)
(* serde_json::Value                                                       *)
(***************************************************************************)
Null == [kind |-> "null"]
Bool(b) == [kind |-> "boolean", b |-> b]
Number(n) == [kind |-> "number", n |-> n]
String(s) == [kind |-> "string", s |-> s]
Array(a) == [kind |-> "array", arr |-> a]
Object(entries) == [kind |-> "object", obj |-> entries]

Entry(k, v) == [key |-> k, val |-> v]

\* UTF-8 width of one code point, as str::len counts it.
Utf8Width(c) == IF c < 128 THEN 1 ELSE IF c < 2048 THEN 2 ELSE IF c < 65536 THEN 3 ELSE 4

RECURSIVE StrLen(_)
StrLen(s) == IF s = <<>> THEN 0 ELSE Utf8Width(Head(s)) + StrLen(Tail(s))

\* Number::as_f64 on an integer of magnitude below 2^53: Some of the same number.
as_f64(n) == Some(n)

contains_key(obj, k) == \E j \in 1..Len(obj) : obj[j].key = k

(***************************************************************************)
(* Schema and the builders                                                 *)
(***************************************************************************)
Schema_string == [min_length |-> None, max_length |-> None]
StringBuilder_min_length(b, min) == [b EXCEPT !.min_length = Some(min)]
StringBuilder_max_length(b, max) == [b EXCEPT !.max_length = Some(max)]
StringBuilder_build(b) ==
    [kind |-> "string", min_length |-> b.min_length, max_length |-> b.max_length]

Schema_number == [min |-> None, max |-> None]
NumberBuilder_min(b, min) == [b EXCEPT !.min = Some(min)]
NumberBuilder_max(b, max) == [b EXCEPT !.max = Some(max)]
NumberBuilder_build(b) == [kind |-> "number", min |-> b.min, max |-> b.max]

Schema_Boolean == [kind |-> "boolean"]

Schema_object == [properties |-> <<>>, required |-> <<>>, additional_properties |-> TRUE]
\* HashMap::insert: a later call for the same name overwrites.
ObjectBuilder_property(b, name, s) ==
    [b EXCEPT !.properties =
        [k \in (DOMAIN b.properties) \cup {name} |->
            IF k = name THEN s ELSE b.properties[k]]]
ObjectBuilder_required(b, name) == [b EXCEPT !.required = Append(b.required, name)]
ObjectBuilder_strict(b) == [b EXCEPT !.additional_properties = FALSE]
ObjectBuilder_build(b) ==
    [kind |-> "object", properties |-> b.properties, required |-> b.required,
     additional_properties |-> b.additional_properties]

Schema_array == [items |-> None, min_items |-> None, max_items |-> None]
ArrayBuilder_items(b, s) == [b EXCEPT !.items = Some(s)]
ArrayBuilder_min_items(b, min) == [b EXCEPT !.min_items = Some(min)]
ArrayBuilder_max_items(b, max) == [b EXCEPT !.max_items = Some(max)]
ArrayBuilder_build(b) ==
    [kind |-> "array", items |-> b.items, min_items |-> b.min_items,
     max_items |-> b.max_items]

(***************************************************************************)
(* PathSegment, ErrorCode, ValidationError                                 *)
(***************************************************************************)
Key(k) == [seg |-> "Key", k |-> k]
\* variant: elements are numbered from 1
Index_OneBased(i) == [seg |-> "Index", i |-> i + 1]

Index(i) == [seg |-> "Index", i |-> i]

ErrorCode ==
    {"InvalidType", "MinLength", "MaxLength", "Min", "Max", "Required",
     "MinItems", "MaxItems", "AdditionalProperty"}

ValidationError(p, code, message, expected, received) ==
    [path |-> p, code |-> code, message |-> message,
     expected |-> expected, received |-> received]

schema_type_name(s) == s.kind
value_type_name(v) == v.kind

(***************************************************************************)
(* The pieces of validate_recursive.  Each takes the two accumulators and  *)
(* returns them as [path, errors].                                         *)
(***************************************************************************)
Acc(p, errs) == [path |-> p, errors |-> errs]

Push(p, segment) == Append(p, segment)
Pop(p) == IF p = <<>> THEN p ELSE SubSeq(p, 1, Len(p) - 1)

\* variant: max_length is looked at only when min_length is satisfied
StringArmErrors_ElseIf(ss, s, p, errs) ==
    IF ss.min_length # None /\ StrLen(s) < Unwrap(ss.min_length)
    THEN Append(errs, ValidationError(p, "MinLength",
             [fmt |-> "String must be at least {} characters",
              n |-> Unwrap(ss.min_length)],
             Some([min |-> Unwrap(ss.min_length)]), Some(String(s))))
    ELSE IF ss.max_length # None /\ StrLen(s) > Unwrap(ss.max_length)
    THEN Append(errs, ValidationError(p, "MaxLength",
             [fmt |-> "String must be at most {} characters",
              n |-> Unwrap(ss.max_length)],
             Some([max |-> Unwrap(ss.max_length)]), Some(String(s))))
    ELSE errs

\* (Schema::String, Value::String) arm
StringArmErrors(ss, s, p, errs) ==
    LET e1 == IF ss.min_length # None /\ StrLen(s) < Unwrap(ss.min_length)
              THEN Append(errs, ValidationError(p, "MinLength",
                       [fmt |-> "String must be at least {} characters",
                        n |-> Unwrap(ss.min_length)],
                       Some([min |-> Unwrap(ss.min_length)]), Some(String(s))))
              ELSE errs
    IN  IF ss.max_length # None /\ StrLen(s) > Unwrap(ss.max_length)
        THEN Append(e1, ValidationError(p, "MaxLength",
                 [fmt |-> "String must be at most {} characters",
                  n |-> Unwrap(ss.max_length)],
                 Some([max |-> Unwrap(ss.max_length)]), Some(String(s))))
        ELSE e1

\* (Schema::Number, Value::Number) arm
NumberArmErrors(ns, n, p, errs) ==
    LET num == Unwrap(as_f64(n))
        e1 == IF ns.min # None /\ num < Unwrap(ns.min)
              THEN Append(errs, ValidationError(p, "Min",
                       [fmt |-> "Number must be at least {}", n |-> Unwrap(ns.min)],
                       Some([min |-> Unwrap(ns.min)]), Some(Number(num))))
              ELSE errs
    IN  IF ns.max # None /\ num > Unwrap(ns.max)
        THEN Append(e1, ValidationError(p, "Max",
                 [fmt |-> "Number must be at most {}", n |-> Unwrap(ns.max)],
                 Some([max |-> Unwrap(ns.max)]), Some(Number(num))))
        ELSE e1

\* variant: the pop after the Required error is missing
RequiredIteration_NoPop(acc, required_key, obj) ==
    IF ~contains_key(obj, required_key)
    THEN LET p1 == Push(acc.path, Key(required_key))
             e1 == Append(acc.errors, ValidationError(p1, "Required",
                       [fmt |-> "Required property '{}' is missing",
                        key |-> required_key],
                       None, None))
         IN  Acc(p1, e1)
    ELSE acc

\* One iteration of `for required_key in &object_schema.required`.
RequiredIteration(acc, required_key, obj) ==
    IF ~contains_key(obj, required_key)
    THEN LET p1 == Push(acc.path, Key(required_key))
             e1 == Append(acc.errors, ValidationError(p1, "Required",
                       [fmt |-> "Required property '{}' is missing",
                        key |-> required_key],
                       None, None))
         IN  Acc(Pop(p1), e1)
    ELSE acc

\* The whole required loop, in the order of the Vec.
RECURSIVE RequiredLoop(_, _, _)
RequiredLoop(acc, required, obj) ==
    IF required = <<>> THEN acc
    ELSE RequiredLoop(RequiredIteration(acc, Head(required), obj), Tail(required), obj)

\* The AdditionalProperty error pushed at the already extended path.
AdditionalPropertyError(p, key, val) ==
    ValidationError(p, "AdditionalProperty",
        [fmt |-> "Additional property '{}' is not allowed", key |-> key],
        None, Some(val))

\* (Schema::Array, Value::Array) arm, the min/max items checks.
ArrayArmErrors(as, arr, p, errs) ==
    LET e1 == IF as.min_items # None /\ Len(arr) < Unwrap(as.min_items)
              THEN Append(errs, ValidationError(p, "MinItems",
                       [fmt |-> "Array must have at least {} items",
                        n |-> Unwrap(as.min_items)],
                       Some([minItems |-> Unwrap(as.min_items)]),
                       Some(Number(Len(arr)))))
              ELSE errs
    IN  IF as.max_items # None /\ Len(arr) > Unwrap(as.max_items)
        THEN Append(e1, ValidationError(p, "MaxItems",
                 [fmt |-> "Array must have at most {} items",
                  n |-> Unwrap(as.max_items)],
                 Some([maxItems |-> Unwrap(as.max_items)]),
                 Some(Number(Len(arr)))))
        ELSE e1

\* variant: the error is recorded with a fresh path instead of path.clone()
InvalidTypeError_FreshPath(s, v, p) ==
    ValidationError(<<>>, "InvalidType",
        [fmt |-> "Expected {:?}, received {:?}",
         exp |-> schema_type_name(s), rec |-> value_type_name(v)],
        None, Some(v))

\* The `_ =>` arm.
InvalidTypeError(s, v, p) ==
    ValidationError(p, "InvalidType",
        [fmt |-> "Expected {:?}, received {:?}",
         exp |-> schema_type_name(s), rec |-> value_type_name(v)],
        None, Some(v))

\* variant: a Null value is accepted by every schema
MatchArm_NullAccepted(s, v) ==
    IF v.kind = "null" THEN "boolean"
    ELSE IF s.kind = "string" /\ v.kind = "string" THEN "string"
    ELSE IF s.kind = "number" /\ v.kind = "number" THEN "number"
    ELSE IF s.kind = "boolean" /\ v.kind = "boolean" THEN "boolean"
    ELSE IF s.kind = "object" /\ v.kind = "object" THEN "object"
    ELSE IF s.kind = "array" /\ v.kind = "array" THEN "array"
    ELSE "_"

\* Which arm of `match (schema, value)` is taken.
MatchArm(s, v) ==
    IF s.kind = "string" /\ v.kind = "string" THEN "string"
    ELSE IF s.kind = "number" /\ v.kind = "number" THEN "number"
    ELSE IF s.kind = "boolean" /\ v.kind = "boolean" THEN "boolean"
    ELSE IF s.kind = "object" /\ v.kind = "object" THEN "object"
    ELSE IF s.kind = "array" /\ v.kind = "array" THEN "array"
    ELSE "_"

(***************************************************************************)
(* The inputs: schemas made with the builders, and JSON values.            *)
(***************************************************************************)
OptBound == {None, Some(0), Some(MaxBound)}
OptItems == {None, Some(0), Some(MaxItems)}

BuildString(mn, mx) ==
    LET b1 == IF mn = None THEN Schema_string
              ELSE StringBuilder_min_length(Schema_string, Unwrap(mn))
        b2 == IF mx = None THEN b1 ELSE StringBuilder_max_length(b1, Unwrap(mx))
    IN  StringBuilder_build(b2)

BuildNumber(mn, mx) ==
    LET b1 == IF mn = None THEN Schema_number
              ELSE NumberBuilder_min(Schema_number, Unwrap(mn))
        b2 == IF mx = None THEN b1 ELSE NumberBuilder_max(b1, Unwrap(mx))
    IN  NumberBuilder_build(b2)

RECURSIVE WithProperties(_, _)
WithProperties(b, props) ==
    IF DOMAIN props = {} THEN b
    ELSE LET name == CHOOSE k \in DOMAIN props : TRUE
         IN  WithProperties(ObjectBuilder_property(b, name, props[name]),
                            [k \in (DOMAIN props) \ {name} |-> props[k]])

RECURSIVE WithRequired(_, _)
WithRequired(b, names) ==
    IF names = <<>> THEN b
    ELSE WithRequired(ObjectBuilder_required(b, Head(names)), Tail(names))

BuildObject(props, names, isStrict) ==
    LET b1 == WithRequired(WithProperties(Schema_object, props), names)
        b2 == IF isStrict THEN ObjectBuilder_strict(b1) ELSE b1
    IN  ObjectBuilder_build(b2)

BuildArray(it, mn, mx) ==
    LET b1 == IF it = None THEN Schema_array
              ELSE ArrayBuilder_items(Schema_array, Unwrap(it))
        b2 == IF mn = None THEN b1 ELSE ArrayBuilder_min_items(b1, Unwrap(mn))
        b3 == IF mx = None THEN b2 ELSE ArrayBuilder_max_items(b2, Unwrap(mx))
    IN  ArrayBuilder_build(b3)

SeqsUpTo(S, n) == UNION {[1..m -> S] : m \in 0..n}
PartialFns(D, R) == UNION {[d -> R] : d \in SUBSET D}
Distinct(ks) == \A i, j \in 1..Len(ks) : i # j => ks[i] # ks[j]

StringSchemas == {BuildString(mn, mx) : mn \in OptBound, mx \in OptBound}
NumberSchemas == {BuildNumber(mn, mx) : mn \in OptBound, mx \in OptBound}
LeafSchemas == StringSchemas \cup NumberSchemas \cup {Schema_Boolean}

ObjectSchemasOf(keys, PS, maxReq) ==
    {BuildObject(props, names, isStrict) :
        props \in PartialFns(keys, PS), names \in SeqsUpTo(keys, maxReq),
        isStrict \in BOOLEAN}

ArraySchemasOf(IS, bnds) ==
    {BuildArray(it, mn, mx) : it \in {None} \cup {Some(s) : s \in IS},
                              mn \in bnds, mx \in bnds}

\* strings of 0, 1, 2 (one two-byte code point) and MaxBound + 1 bytes
StrVals == {<<>>, <<97>>, <<233>>, [i \in 1..(MaxBound + 1) |-> 97]}
NumVals == {-1, 1, MaxBound + 1}
LeafValues ==
    {String(s) : s \in StrVals} \cup {Number(n) : n \in NumVals}
        \cup {Bool(TRUE), Bool(FALSE), Null}

ObjectValuesOf(keys, CV) ==
    {Object([j \in 1..Len(ks) |-> Entry(ks[j], vs[j])]) :
        <<ks, vs>> \in UNION {({k \in [1..m -> keys] : Distinct(k)}) \X [1..m -> CV] :
                                 m \in 0..Cardinality(keys)}}

ArrayValuesOf(CV, n) == {Array(a) : a \in SeqsUpTo(CV, n)}

\* the schemas and values used below the root
PropSchemas == {BuildString(Some(MaxBound), None), BuildNumber(None, Some(0)), Schema_Boolean}
PropValues == {String(<<97>>), Number(1), Bool(TRUE), Null}

ObjectSchemas == ObjectSchemasOf(Keys, PropSchemas, MaxRequired)
ObjectValues == ObjectValuesOf(Keys, PropValues)
ArraySchemas == ArraySchemasOf(PropSchemas, OptItems)
ArrayValues == ArrayValuesOf(PropValues, MaxItems + 1)

\* two and three levels: arrays of objects, objects of arrays and objects
InnerObjectSchemas == ObjectSchemasOf({"a"}, {BuildString(Some(MaxBound), None)}, 1)
InnerObjectValues == ObjectValuesOf({"a"}, {String(<<97>>), String(<<233>>), Number(1)})
InnerArraySchemas == ArraySchemasOf({BuildNumber(None, Some(0))}, {None, Some(1)})
InnerArrayValues == ArrayValuesOf({Number(1), Number(-1), Null}, 2)
MidSchemas == {BuildArray(Some(s), None, None) : s \in InnerObjectSchemas}
MidValues == ArrayValuesOf(InnerObjectValues \cup {Null}, 2)
NestedSchemas ==
    MidSchemas
    \cup ObjectSchemasOf({"a"}, InnerObjectSchemas \cup InnerArraySchemas, 1)
    \cup ObjectSchemasOf({"b"}, MidSchemas, 0)
NestedValues ==
    MidValues
    \cup ObjectValuesOf({"a"}, InnerObjectValues \cup InnerArrayValues)
    \cup ObjectValuesOf({"b"}, ArrayValuesOf(InnerObjectValues, 2))

Inputs ==
    (LeafSchemas \X (LeafValues \cup {Object(<<>>), Array(<<Null>>)}))
    \cup (ObjectSchemas \X (ObjectValues \cup {Null, Array(<<Null>>)}))
    \cup (ArraySchemas \X (ArrayValues \cup {Null, Object(<<Entry("a", Null)>>)}))
    \cup (NestedSchemas \X NestedValues)

(***************************************************************************)
(* The walk.  stack holds one frame per active call of validate_recursive, *)
(* the innermost last.  A frame knows its arguments, where the call stands *)
(* (pc), the position of its loop (i, counting from 0), the path it was     *)
(* entered with and the number of errors recorded at that time (entry,     *)
(* errs0).                                                                 *)
(*   enter       at the head of `match (schema, value)`                    *)
(*   keys        at the head of `for (key, val) in obj`                    *)
(*   after_prop  the recursive call at line 295 has returned               *)
(*   items       at the head of `for (i, item) in arr.iter().enumerate()`  *)
(*   after_item  the recursive call at line 340 has returned               *)
(*   ret         at the end of the function body                           *)
(***************************************************************************)
Frame(s, v, p, errs) ==
    [schema |-> s, value |-> v, pc |-> "enter", i |-> 0, entry |-> p, errs0 |-> Len(errs)]

Top == stack[Len(stack)]
SetTop(f) == [stack EXCEPT ![Len(stack)] = f]
At(pc) == phase = "walking" /\ stack # <<>> /\ Top.pc = pc
Arm(a) == At("enter") /\ MatchArm(Top.schema, Top.value) = a

Ok == [ok |-> TRUE]
Err(errs) == [ok |-> FALSE, errors |-> errs]

\* variant: the error list of the previous call is used again
NewErrors_Reused(old) == old

\* `let mut errors = Vec::new(); let mut path = Vec::new();`
NewErrors(old) == <<>>
NewPath(old) == <<>>

\* variant: the list is returned as Err whether or not it is empty
Outcome_AlwaysErr(errs) == Err(errs)

\* `if errors.is_empty() { Ok(()) } else { Err(errors) }`
Outcome(errs) == IF errs = <<>> THEN Ok ELSE Err(errs)

Init ==
    /\ \E input \in Inputs : schema = input[1] /\ value = input[2]
    /\ path = <<>>
    /\ errors = <<>>
    /\ stack = <<>>
    /\ phase = "ready"
    /\ result = None
    /\ log = <<>>

\* validate, lines 384-387: fresh accumulators, then the root call
Begin ==
    /\ phase = "ready"
    /\ errors' = NewErrors(errors)
    /\ path' = NewPath(path)
    /\ stack' = <<Frame(schema, value, path', errors')>>
    /\ phase' = "walking"
    /\ UNCHANGED <<schema, value, result, log>>

StringArm ==
    /\ Arm("string")
    /\ errors' = StringArmErrors(Top.schema, Top.value.s, path, errors)
    /\ stack' = SetTop([Top EXCEPT !.pc = "ret"])
    /\ UNCHANGED <<schema, value, path, phase, result, log>>

NumberArm ==
    /\ Arm("number")
    /\ errors' = NumberArmErrors(Top.schema, Top.value.n, path, errors)
    /\ stack' = SetTop([Top EXCEPT !.pc = "ret"])
    /\ UNCHANGED <<schema, value, path, phase, result, log>>

BooleanArm ==
    /\ Arm("boolean")
    /\ stack' = SetTop([Top EXCEPT !.pc = "ret"])
    /\ UNCHANGED <<schema, value, path, errors, phase, result, log>>

\* the required loop, lines 276-288
ObjectArm ==
    /\ Arm("object")
    /\ LET acc == RequiredLoop(Acc(path, errors), Top.schema.required, Top.value.obj)
       IN  /\ path' = acc.path
           /\ errors' = acc.errors
    /\ stack' = SetTop([Top EXCEPT !.pc = "keys", !.i = 0])
    /\ UNCHANGED <<schema, value, phase, result, log>>

\* lines 291-295: a key with a declared property schema
ObjectKeyRecurse ==
    /\ At("keys")
    /\ Top.i < Len(Top.value.obj)
    /\ LET e == Top.value.obj[Top.i + 1]
       IN  /\ e.key \in DOMAIN Top.schema.properties
           /\ path' = Push(path, Key(e.key))
           /\ stack' = Append(SetTop([Top EXCEPT !.pc = "after_prop"]),
                              Frame(Top.schema.properties[e.key], e.val, path', errors))
    /\ UNCHANGED <<schema, value, errors, phase, result, log>>

\* variant: undeclared keys are rejected whatever additional_properties is
ObjectKeyAdditional_IgnoresFlag ==
    /\ At("keys")
    /\ Top.i < Len(Top.value.obj)
    /\ LET e == Top.value.obj[Top.i + 1]
           p1 == Push(path, Key(e.key))
       IN  /\ e.key \notin DOMAIN Top.schema.properties
           /\ errors' = Append(errors, AdditionalPropertyError(p1, e.key, e.val))
           /\ path' = Pop(p1)
    /\ stack' = SetTop([Top EXCEPT !.i = @ + 1])
    /\ UNCHANGED <<schema, value, phase, result, log>>

\* lines 292, 296-306: an undeclared key of a strict object
ObjectKeyAdditional ==
    /\ At("keys")
    /\ Top.i < Len(Top.value.obj)
    /\ LET e == Top.value.obj[Top.i + 1]
           p1 == Push(path, Key(e.key))
       IN  /\ e.key \notin DOMAIN Top.schema.properties
           /\ ~Top.schema.additional_properties
           /\ errors' = Append(errors, AdditionalPropertyError(p1, e.key, e.val))
           /\ path' = Pop(p1)
    /\ stack' = SetTop([Top EXCEPT !.i = @ + 1])
    /\ UNCHANGED <<schema, value, phase, result, log>>

\* lines 292, 306: an undeclared key of a non-strict object
ObjectKeyAccept ==
    /\ At("keys")
    /\ Top.i < Len(Top.value.obj)
    /\ LET e == Top.value.obj[Top.i + 1]
       IN  /\ e.key \notin DOMAIN Top.schema.properties
           /\ Top.schema.additional_properties
           /\ path' = Pop(Push(path, Key(e.key)))
    /\ stack' = SetTop([Top EXCEPT !.i = @ + 1])
    /\ UNCHANGED <<schema, value, errors, phase, result, log>>

\* variant: the loop over the keys stops at the first key that failed
ObjectKeyPop_FailFast ==
    /\ At("after_prop")
    /\ path' = Pop(path)
    /\ stack' = SetTop([Top EXCEPT !.pc = "keys",
                          !.i = IF Len(errors) > Top.errs0
                                THEN Len(Top.value.obj) ELSE @ + 1])
    /\ UNCHANGED <<schema, value, errors, phase, result, log>>

\* line 306 after the recursive call
ObjectKeyPop ==
    /\ At("after_prop")
    /\ path' = Pop(path)
    /\ stack' = SetTop([Top EXCEPT !.pc = "keys", !.i = @ + 1])
    /\ UNCHANGED <<schema, value, errors, phase, result, log>>

ObjectDone ==
    /\ At("keys")
    /\ Top.i >= Len(Top.value.obj)
    /\ stack' = SetTop([Top EXCEPT !.pc = "ret"])
    /\ UNCHANGED <<schema, value, path, errors, phase, result, log>>

\* lines 312-337
ArrayArm ==
    /\ Arm("array")
    /\ errors' = ArrayArmErrors(Top.schema, Top.value.arr, path, errors)
    /\ stack' = SetTop([Top EXCEPT
                          !.pc = IF Top.schema.items # None THEN "items" ELSE "ret",
                          !.i = 0])
    /\ UNCHANGED <<schema, value, path, phase, result, log>>

\* lines 338-340
ArrayItemRecurse ==
    /\ At("items")
    /\ Top.i < Len(Top.value.arr)
    /\ path' = Push(path, Index(Top.i))
    /\ stack' = Append(SetTop([Top EXCEPT !.pc = "after_item"]),
                       Frame(Unwrap(Top.schema.items), Top.value.arr[Top.i + 1], path',
                             errors))
    /\ UNCHANGED <<schema, value, errors, phase, result, log>>

\* line 341
ArrayItemPop ==
    /\ At("after_item")
    /\ path' = Pop(path)
    /\ stack' = SetTop([Top EXCEPT !.pc = "items", !.i = @ + 1])
    /\ UNCHANGED <<schema, value, errors, phase, result, log>>

ArrayDone ==
    /\ At("items")
    /\ Top.i >= Len(Top.value.arr)
    /\ stack' = SetTop([Top EXCEPT !.pc = "ret"])
    /\ UNCHANGED <<schema, value, path, errors, phase, result, log>>

\* lines 346-358
MismatchArm ==
    /\ Arm("_")
    /\ errors' = Append(errors, InvalidTypeError(Top.schema, Top.value, path))
    /\ stack' = SetTop([Top EXCEPT !.pc = "ret"])
    /\ UNCHANGED <<schema, value, path, phase, result, log>>

\* the call returns to its caller
Return ==
    /\ At("ret")
    /\ stack' = SubSeq(stack, 1, Len(stack) - 1)
    /\ UNCHANGED <<schema, value, path, errors, phase, result, log>>

\* validate, lines 389-393
Finish ==
    /\ phase = "walking"
    /\ stack = <<>>
    /\ result' = Some(Outcome(errors))
    /\ log' = Append(log, [schema |-> schema, value |-> value, result |-> Outcome(errors)])
    /\ phase' = "done"
    /\ UNCHANGED <<schema, value, path, errors, stack>>

Next ==
    \/ Begin
    \/ StringArm
    \/ NumberArm
    \/ BooleanArm
    \/ ObjectArm
    \/ ObjectKeyRecurse
    \/ ObjectKeyAdditional
    \/ ObjectKeyAccept
    \/ ObjectKeyPop
    \/ ObjectDone
    \/ ArrayArm
    \/ ArrayItemRecurse
    \/ ArrayItemPop
    \/ ArrayDone
    \/ MismatchArm
    \/ Return
    \/ Finish

Spec == Init /\ [][Next]_vars

\* every step of one call is eventually taken
FairSpec == Spec /\ WF_vars(Next)

(***************************************************************************)
(* Several calls in a row: a finished call may be followed by another one  *)
(* on any input; the locals of the finished call are dead memory.          *)
(***************************************************************************)
SessionInputs ==
    { <<BuildString(Some(MaxBound), Some(0)), String(<<97>>)>>,
      <<BuildNumber(None, Some(0)), Number(-1)>>,
      <<Schema_Boolean, Bool(TRUE)>>,
      <<Schema_Boolean, Null>>,
      <<BuildObject("a" :> BuildString(Some(MaxBound), None), <<"a", "b">>, TRUE),
        Object(<<Entry("c", Null), Entry("a", String(<<97>>))>>)>>,
      <<BuildObject("a" :> BuildString(Some(MaxBound), None), <<"a", "b">>, TRUE),
        Object(<<Entry("a", String(<<97, 98, 99>>)), Entry("b", Null)>>)>>,
      <<BuildObject(<<>>, <<>>, TRUE), Object(<<Entry("x", Number(1))>>)>>,
      <<BuildObject(<<>>, <<>>, FALSE), Object(<<Entry("x", Number(1))>>)>>,
      <<BuildArray(Some(BuildObject(<<>>, <<"email">>, TRUE)), None, None),
        Array(<<Object(<<Entry("email", String(<<97>>))>>), Object(<<>>)>>)>>,
      <<BuildArray(Some(BuildNumber(Some(0), None)), Some(1), Some(MaxItems)),
        Array(<<>>)>> }

SessionInit ==
    /\ \E input \in SessionInputs : schema = input[1] /\ value = input[2]
    /\ path = <<>>
    /\ errors = <<>>
    /\ stack = <<>>
    /\ phase = "ready"
    /\ result = None
    /\ log = <<>>

\* the caller passes the next pair to validate
NextCall ==
    /\ phase = "done"
    /\ Len(log) < MaxCalls
    /\ \E input \in SessionInputs : schema' = input[1] /\ value' = input[2]
    /\ phase' = "ready"
    /\ UNCHANGED <<path, errors, stack, result, log>>

SessionNext == Next \/ NextCall

SessionSpec == SessionInit /\ [][SessionNext]_vars

(***************************************************************************)
(* Reference definitions used by the properties.                           *)
(***************************************************************************)
KeySeg(k) == [seg |-> "Key", k |-> k]
IndexSeg(i) == [seg |-> "Index", i |-> i]
HasKey(obj, k) == k \in {obj[j].key : j \in 1..Len(obj)}

\* the length of a string in bytes of its UTF-8 encoding
RECURSIVE ByteLength(_)
ByteLength(s) ==
    IF s = <<>> THEN 0
    ELSE ByteLength(Tail(s))
           + (CASE Head(s) <= 127 -> 1 [] Head(s) \in 128..2047 -> 2
                [] Head(s) \in 2048..65535 -> 3 [] OTHER -> 4)

IsPrefix(a, b) == Len(a) <= Len(b) /\ SubSeq(b, 1, Len(a)) = a

Range(f) == {f[x] : x \in DOMAIN f}

Finished == phase = "done"
Returned == Unwrap(result)

ValueOf(obj, k) == obj[CHOOSE j \in 1..Len(obj) : obj[j].key = k].val

\* the recursive conformance predicate
RECURSIVE Conforms(_, _)
Conforms(s, v) ==
    /\ s.kind = v.kind
    /\ CASE s.kind = "string" ->
              /\ \A mn \in s.min_length : ByteLength(v.s) >= mn
              /\ \A mx \in s.max_length : ByteLength(v.s) <= mx
         [] s.kind = "number" ->
              /\ \A mn \in s.min : v.n >= mn
              /\ \A mx \in s.max : v.n <= mx
         [] s.kind = "boolean" -> TRUE
         [] s.kind = "object" ->
              /\ \A name \in Range(s.required) : HasKey(v.obj, name)
              /\ \A j \in 1..Len(v.obj) :
                    IF v.obj[j].key \in DOMAIN s.properties
                    THEN Conforms(s.properties[v.obj[j].key], v.obj[j].val)
                    ELSE s.additional_properties
         [] s.kind = "array" ->
              /\ \A mn \in s.min_items : Len(v.arr) >= mn
              /\ \A mx \in s.max_items : Len(v.arr) <= mx
              /\ \A it \in s.items : \A j \in 1..Len(v.arr) : Conforms(it, v.arr[j])

\* the value a path leads to, None when the path leads nowhere
RECURSIVE Follow(_, _)
Follow(v, p) ==
    IF p = <<>> THEN Some(v)
    ELSE IF Head(p).seg = "Key"
         THEN IF v.kind = "object" /\ HasKey(v.obj, Head(p).k)
              THEN Follow(ValueOf(v.obj, Head(p).k), Tail(p))
              ELSE None
         ELSE IF v.kind = "array" /\ Head(p).i < Len(v.arr)
              THEN Follow(v.arr[Head(p).i + 1], Tail(p))
              ELSE None

RECURSIVE Concat(_)
Concat(ss) == IF ss = <<>> THEN <<>> ELSE Head(ss) \o Concat(Tail(ss))

\* the codes and paths of the errors of one node and everything below it,
\* as the depth-first concatenation
RECURSIVE NodeErrors(_, _, _)
NodeErrors(s, v, p) ==
    LET E(code, q) == [path |-> q, code |-> code]
    IN  IF s.kind # v.kind THEN <<E("InvalidType", p)>>
        ELSE CASE s.kind = "string" ->
                  (IF \E mn \in s.min_length : ByteLength(v.s) < mn
                   THEN <<E("MinLength", p)>> ELSE <<>>)
                  \o (IF \E mx \in s.max_length : ByteLength(v.s) > mx
                      THEN <<E("MaxLength", p)>> ELSE <<>>)
             [] s.kind = "number" ->
                  (IF \E mn \in s.min : v.n < mn THEN <<E("Min", p)>> ELSE <<>>)
                  \o (IF \E mx \in s.max : v.n > mx THEN <<E("Max", p)>> ELSE <<>>)
             [] s.kind = "boolean" -> <<>>
             [] s.kind = "object" ->
                  Concat([j \in 1..Len(s.required) |->
                            IF HasKey(v.obj, s.required[j]) THEN <<>>
                            ELSE <<E("Required", p \o <<KeySeg(s.required[j])>>)>>])
                  \o Concat([j \in 1..Len(v.obj) |->
                            LET k == v.obj[j].key
                            IN  IF k \in DOMAIN s.properties
                                THEN NodeErrors(s.properties[k], v.obj[j].val,
                                                p \o <<KeySeg(k)>>)
                                ELSE IF s.additional_properties THEN <<>>
                                ELSE <<E("AdditionalProperty", p \o <<KeySeg(k)>>)>>])
             [] s.kind = "array" ->
                  (IF \E mn \in s.min_items : Len(v.arr) < mn
                   THEN <<E("MinItems", p)>> ELSE <<>>)
                  \o (IF \E mx \in s.max_items : Len(v.arr) > mx
                      THEN <<E("MaxItems", p)>> ELSE <<>>)
                  \o (IF s.items = None THEN <<>>
                      ELSE Concat([j \in 1..Len(v.arr) |->
                              NodeErrors(Unwrap(s.items), v.arr[j],
                                         p \o <<IndexSeg(j - 1)>>)]))

CodeAndPath(errs) == [j \in 1..Len(errs) |-> [path |-> errs[j].path, code |-> errs[j].code]]

\* the errors recorded since the innermost call was entered
Contributed == SubSeq(errors, Top.errs0 + 1, Len(errors))

Count(errs, code, p) ==
    Cardinality({j \in 1..Len(errs) : errs[j].code = code /\ errs[j].path = p})

(***************************************************************************)
(* C1: validate returns Ok exactly when the value conforms to the schema   *)
(* at every level, and Err in every other case.                            *)
(***************************************************************************)
C1_OkIffConforms ==
    Finished => (Returned.ok <=> Conforms(schema, value))

\* an object whose declared property and required key both check out
C1_Witness ==
    /\ Finished /\ Returned.ok
    /\ schema.kind = "object" /\ schema.required # <<>>
    /\ \E j \in 1..Len(value.obj) : value.obj[j].key \in DOMAIN schema.properties

(***************************************************************************)
(* C7: the returned list is the depth-first concatenation of every node's  *)
(* errors: for an object the Required errors in the order of the required  *)
(* list, then the present keys in the value's iteration order; for an      *)
(* array the item-count errors, then the elements in ascending order.      *)
(***************************************************************************)
C7_ExhaustiveOrdered ==
    Finished => CodeAndPath(errors) = NodeErrors(schema, value, <<>>)

\* two properties of one object that each violate a bound
C7_Witness ==
    /\ Finished
    /\ schema.kind = "object"
    /\ Len(errors) = 2
    /\ errors[1].path = <<KeySeg("b")>> /\ errors[1].code = "MinLength"
    /\ errors[2].path = <<KeySeg("a")>> /\ errors[2].code = "Max"

(***************************************************************************)
(* C8: validate terminates, and returns either Ok, having recorded no      *)
(* error at all, or Err with a non-empty list.                             *)
(***************************************************************************)
C8_TerminatesOkOrNonEmptyErr ==
    /\ <>Finished
    /\ [](Finished =>
            /\ Returned.ok <=> errors = <<>>
            /\ ~Returned.ok => Returned.errors # <<>> /\ Returned.errors = errors)

\* a call that went through the Number arm and returned Err
C8_Witness ==
    /\ Finished /\ ~Returned.ok
    /\ schema.kind = "number" /\ value.kind = "number"

\* the location of the walk: one segment per descent in progress
WalkPath ==
    LET descending == {k \in 1..Len(stack) : stack[k].pc \in {"after_prop", "after_item"}}
    IN  [k \in 1..Cardinality(descending) |->
            IF stack[k].pc = "after_prop"
            THEN KeySeg(stack[k].value.obj[stack[k].i + 1].key)
            ELSE IndexSeg(stack[k].i)]

Front(p) == SubSeq(p, 1, Len(p) - 1)
Last(p) == p[Len(p)]

TopMatched(kind) ==
    At("ret") /\ Top.schema.kind = kind /\ Top.value.kind = kind

(***************************************************************************)
(* C2: a node whose value kind differs from the schema kind contributes    *)
(* exactly one error, an InvalidType error at the current path, however    *)
(* large the value or the schema below it is.                              *)
(***************************************************************************)
C2_MismatchOneInvalidType ==
    (At("ret") /\ Top.schema.kind # Top.value.kind) =>
        /\ Len(Contributed) = 1
        /\ Contributed[1].code = "InvalidType"
        /\ Contributed[1].path = Top.entry
        /\ Contributed[1].path = path

\* a nested object schema with a required key, met by a non-empty array
C2_Witness ==
    /\ At("ret") /\ Len(stack) > 1
    /\ Top.schema.kind = "object" /\ Top.schema.required # <<>>
    /\ Top.value.kind = "array" /\ Top.value.arr # <<>>

(***************************************************************************)
(* C3: for an Object schema against an Object value there is exactly one   *)
(* Required error per missing required field, at the object's path         *)
(* extended with Key(name), and none for a name present in the value.      *)
(***************************************************************************)
C3_OneRequiredPerMissingField ==
    TopMatched("object") =>
        \A name \in Range(Top.schema.required)
                      \cup {Top.value.obj[j].key : j \in 1..Len(Top.value.obj)} :
            Count(Contributed, "Required", Top.entry \o <<KeySeg(name)>>)
                = IF name \in Range(Top.schema.required)
                     /\ ~HasKey(Top.value.obj, name)
                  THEN 1 ELSE 0

(***************************************************************************)
(* C4: every error carries the root-relative path of the place where it    *)
(* was detected: the segments by which the walk descended; following the   *)
(* path reaches the offending value, and for a Required error following    *)
(* all but the last segment reaches the object that lacks the key named by *)
(* the last segment.                                                       *)
(***************************************************************************)
Offending(e, v) ==
    CASE e.code \in {"InvalidType", "AdditionalProperty"} -> e.received = Some(v)
      [] e.code \in {"MinLength", "MaxLength"} -> v.kind = "string" /\ e.received = Some(v)
      [] e.code \in {"Min", "Max"} -> v.kind = "number" /\ e.received = Some(v)
      [] e.code \in {"MinItems", "MaxItems"} ->
            v.kind = "array" /\ e.received = Some(Number(Len(v.arr)))

PathExact(e) ==
    IF e.code = "Required"
    THEN /\ e.path # <<>>
         /\ Last(e.path).seg = "Key"
         /\ \E o \in Follow(value, Front(e.path)) :
               o.kind = "object" /\ ~HasKey(o.obj, Last(e.path).k)
    ELSE \E v \in Follow(value, e.path) : Offending(e, v)

C4_ExactPaths ==
    /\ [](\A j \in 1..Len(errors) : PathExact(errors[j]))
    /\ [][\A j \in (Len(errors) + 1)..Len(errors') :
             IF errors'[j].code \in {"Required", "AdditionalProperty"}
             THEN Front(errors'[j].path) = WalkPath
             ELSE errors'[j].path = WalkPath]_vars

\* element 1 of an array of objects lacks key "a", element 0 violates it
C4_Witness ==
    /\ Finished
    /\ value.kind = "array"
    /\ \E j \in 1..Len(errors) :
          errors[j].code = "Required" /\ errors[j].path = <<IndexSeg(1), KeySeg("a")>>
    /\ \E j \in 1..Len(errors) :
          errors[j].code = "MinLength" /\ errors[j].path = <<IndexSeg(0), KeySeg("a")>>

(***************************************************************************)
(* C5: each key present in an object value is visited exactly once; a key  *)
(* without a declared property schema yields exactly one                   *)
(* AdditionalProperty error at the object's path extended with Key(key)    *)
(* when additional_properties is false, and no error at all, whatever its  *)
(* value, when additional_properties is true.                              *)
(***************************************************************************)
Under(errs, q) == SelectSeq(errs, LAMBDA e : IsPrefix(q, e.path))

C5_PresentKeys ==
    TopMatched("object") =>
        \A j \in 1..Len(Top.value.obj) :
            LET k == Top.value.obj[j].key
                q == Top.entry \o <<KeySeg(k)>>
                sub == CodeAndPath(Under(Contributed, q))
            IN  IF k \in DOMAIN Top.schema.properties
                THEN sub = NodeErrors(Top.schema.properties[k], Top.value.obj[j].val, q)
                ELSE IF Top.schema.additional_properties
                THEN sub = <<>>
                ELSE sub = <<[path |-> q, code |-> "AdditionalProperty"]>>

\* a strict object with an undeclared key next to a declared, failing one
C5_Witness ==
    /\ TopMatched("object")
    /\ ~Top.schema.additional_properties
    /\ Len(Top.value.obj) = 2
    /\ Top.value.obj[1].key \notin DOMAIN Top.schema.properties
    /\ Top.value.obj[2].key \in DOMAIN Top.schema.properties
    /\ Len(Contributed) = 2

(***************************************************************************)
(* C6: for a String, Number or Array schema met by a value of its kind,    *)
(* each bound is checked on its own: a set and violated bound appends      *)
(* exactly one error of its code at the current path, an unset or          *)
(* satisfied bound appends nothing, and both errors appear when the value  *)
(* lies between an upper bound and a larger lower bound.                   *)
(***************************************************************************)
BoundErrors(lowCode, low, highCode, high, size) ==
    /\ Count(Contributed, lowCode, Top.entry)
          = IF \E mn \in low : size < mn THEN 1 ELSE 0
    /\ Count(Contributed, highCode, Top.entry)
          = IF \E mx \in high : size > mx THEN 1 ELSE 0
    /\ \A j \in 1..Len(Contributed) :
          Contributed[j].path = Top.entry => Contributed[j].code \in {lowCode, highCode}

C6_IndependentBounds ==
    /\ TopMatched("string") =>
          /\ BoundErrors("MinLength", Top.schema.min_length,
                         "MaxLength", Top.schema.max_length, ByteLength(Top.value.s))
          /\ \A j \in 1..Len(Contributed) : Contributed[j].path = path
    /\ TopMatched("number") =>
          /\ BoundErrors("Min", Top.schema.min, "Max", Top.schema.max, Top.value.n)
          /\ \A j \in 1..Len(Contributed) : Contributed[j].path = path
    /\ TopMatched("array") =>
          BoundErrors("MinItems", Top.schema.min_items,
                      "MaxItems", Top.schema.max_items, Len(Top.value.arr))

\* a string between max_length and a larger min_length: both errors
C6_Witness ==
    /\ TopMatched("string")
    /\ Len(Contributed) = 2
    /\ Contributed[1].code = "MinLength" /\ Contributed[2].code = "MaxLength"

(***************************************************************************)
(* C9: any two calls of validate on the same schema and value return       *)
(* identical results, whatever calls were made in between; every call      *)
(* starts with empty accumulators and leaves schema and value alone.       *)
(***************************************************************************)
C9_Deterministic ==
    /\ \A i, j \in 1..Len(log) :
          (log[i].schema = log[j].schema /\ log[i].value = log[j].value)
              => log[i].result = log[j].result
    /\ (At("enter") /\ Len(stack) = 1) => (errors = <<>> /\ path = <<>>)
    /\ stack # <<>> => (stack[1].schema = schema /\ stack[1].value = value)

\* the same failing pair validated again after a call on another pair
C9_Witness ==
    /\ Len(log) = 3
    /\ log[1].schema = log[3].schema /\ log[1].value = log[3].value
    /\ log[2].value # log[1].value
    /\ ~log[1].result.ok /\ ~log[2].result.ok

(***************************************************************************)
(* C10: every call of validate_recursive returns with the path stack it    *)
(* was entered with; the stack length is the nesting depth of the walk,    *)
(* the stack is empty when validate finishes, and the error list only      *)
(* grows by appending.                                                     *)
(***************************************************************************)
C10_PushPopDiscipline ==
    /\ [](/\ At("ret") => path = Top.entry
          /\ \A k \in 1..Len(stack) : Len(stack[k].entry) = k - 1
          /\ stack # <<>> => path = WalkPath
          /\ (At("enter") \/ At("keys") \/ At("items")) => Len(path) = Len(stack) - 1
          /\ Finished => path = <<>>)
    /\ [][IsPrefix(errors, errors')]_vars

\* three levels down, on the way back, with errors recorded
C10_Witness ==
    /\ At("ret") /\ Len(stack) = 4
    /\ Len(path) = 3
    /\ errors # <<>>

====
